---------------------------- MODULE Spec2Model ----------------------------
(***************************************************************************)
(* Model of assembling.py: Instruction, InstructionSet and the two-pass    *)
(* Assembler.assemble.  Text is modelled character by character: a string  *)
(* is a sequence of one-character strings, and the regular expressions of  *)
(* the source are operators that scan such sequences.                      *)
(***************************************************************************)
EXTENDS Integers, Sequences, FiniteSets, TLC

VARIABLES start_formatter, end_formatter, text, binary_output, pc, lines,
          line_number, result, sections_started, new_text, to_jump,
          last_section_name, ret, calls, prev

vars == <<start_formatter, end_formatter, text, binary_output, pc, lines,
          line_number, result, sections_started, new_text, to_jump,
          last_section_name, ret, calls, prev>>

(***************************************************************************)
(* Bounds of the model.                                                    *)
(***************************************************************************)
MaxLines == 2

(***************************************************************************)
(* Characters.  LF is the only character the regular expression `.` does   *)
(* not match; str.splitlines() also ends a line at CR.                     *)
(***************************************************************************)
LF == "\n"
CR == "\r"
LineBoundaries == {LF, CR}
\* \s of the re module, within the alphabet of the model
Whitespace == {" ", LF, CR}
\* \w of the re module (letters, digits and the underscore)
Digits == {"1"}
WordChars == {"a", "b", "c", "m", "n", "z"} \cup Digits

Max(S) == CHOOSE x \in S : \A y \in S : y <= x
Min(S) == CHOOSE x \in S : \A y \in S : x <= y

RECURSIVE Flatten(_)
Flatten(ss) == IF ss = <<>> THEN <<>> ELSE Head(ss) \o Flatten(Tail(ss))

\* as IsBlank, without the strip
IsEmpty(s) == s = <<>>

\* str.strip() leaves nothing: every character is whitespace
IsBlank(s) == \A i \in 1..Len(s) : s[i] \in Whitespace

\* "\n".join(parts)
RECURSIVE JoinLines(_)
JoinLines(parts) ==
    IF parts = <<>> THEN <<>>
    ELSE IF Len(parts) = 1 THEN parts[1]
    ELSE parts[1] \o <<LF>> \o JoinLines(Tail(parts))

\* re.sub(r";.*", "", s): from each ";" up to, not including, the next LF
RECURSIVE StripFrom(_, _)
StripFrom(s, inComment) ==
    IF s = <<>> THEN <<>>
    ELSE IF Head(s) = LF THEN <<LF>> \o StripFrom(Tail(s), FALSE)
    ELSE IF inComment \/ Head(s) = ";" THEN StripFrom(Tail(s), TRUE)
    ELSE <<Head(s)>> \o StripFrom(Tail(s), FALSE)

StripComments(s) == StripFrom(s, FALSE)

\* str.splitlines(): a line ends at LF, CR or CR LF; no empty last line
RECURSIVE SplitFrom(_, _)
SplitFrom(s, cur) ==
    IF s = <<>> THEN (IF cur = <<>> THEN <<>> ELSE <<cur>>)
    ELSE IF Head(s) = CR /\ Len(s) >= 2 /\ s[2] = LF
         THEN <<cur>> \o SplitFrom(Tail(Tail(s)), <<>>)
    ELSE IF Head(s) \in LineBoundaries THEN <<cur>> \o SplitFrom(Tail(s), <<>>)
    ELSE SplitFrom(Tail(s), cur \o <<Head(s)>>)

SplitLines(s) == SplitFrom(s, <<>>)

\* the sequence both loops enumerate: re.sub(r";.*", "", s).splitlines()
StrippedLines(s) == SplitLines(StripComments(s))

\* the end of the longest run of characters of S that starts after p
RunEnd(s, p, S) ==
    Max({q \in p..Len(s) : \A i \in (p + 1)..q : s[i] \in S})

\* The label pattern of the first pass under re.fullmatch: optional
\* whitespace, a name of word characters, optional whitespace, a colon, and
\* the rest of the line (any characters but LF) as the statement.
LabelMatch(line) ==
    LET i == RunEnd(line, 0, Whitespace)
        j == RunEnd(line, i, WordChars)
        k == RunEnd(line, j, Whitespace)
    IN  IF j > i /\ k < Len(line) /\ line[k + 1] = ":"
             /\ (\A q \in (k + 2)..Len(line) : line[q] # LF)
        THEN [ok |-> TRUE, name |-> SubSeq(line, i + 1, j),
              statement |-> SubSeq(line, k + 2, Len(line))]
        ELSE [ok |-> FALSE, name |-> <<>>, statement |-> <<>>]

\* The section pattern of the second pass under re.fullmatch: as the label
\* pattern, with nothing but whitespace after the colon.
SectionMatch(line) ==
    LET i == RunEnd(line, 0, Whitespace)
        j == RunEnd(line, i, WordChars)
        k == RunEnd(line, j, Whitespace)
    IN  IF j > i /\ k < Len(line) /\ line[k + 1] = ":"
             /\ (\A q \in (k + 2)..Len(line) : line[q] \in Whitespace)
        THEN [ok |-> TRUE, name |-> SubSeq(line, i + 1, j)]
        ELSE [ok |-> FALSE, name |-> <<>>]

(***************************************************************************)
(* Instruction: the pattern built by __init__ is a sequence of parts, each *)
(* optional whitespace ("ws"), literal text ("lit") or a capture group     *)
(* ("grp") whose grammar is given by the finite set of texts it matches.   *)
(***************************************************************************)
Ws == [kind |-> "ws", s |-> <<>>, lang |-> {}]
Lit(s) == [kind |-> "lit", s |-> s, lang |-> {}]
Grp(lang) == [kind |-> "grp", s |-> <<>>, lang |-> lang]

\* as ArgumentsRegex, with the arguments joined by whitespace alone
RECURSIVE ArgumentsRegexSpaced(_)
ArgumentsRegexSpaced(arguments) ==
    IF arguments = <<>> THEN <<>>
    ELSE IF Len(arguments) = 1 THEN <<Grp(arguments[1])>>
    ELSE <<Grp(arguments[1]), Ws>> \o ArgumentsRegexSpaced(Tail(arguments))

\* the arguments joined by whitespace-tolerant commas, each a capture group
RECURSIVE ArgumentsRegex(_)
ArgumentsRegex(arguments) ==
    IF arguments = <<>> THEN <<>>
    ELSE IF Len(arguments) = 1 THEN <<Grp(arguments[1])>>
    ELSE <<Grp(arguments[1]), Ws, Lit(<<",">>), Ws>>
         \o ArgumentsRegex(Tail(arguments))

\* Instruction.pattern(): whitespace, the mnemonic, whitespace, the
\* arguments, whitespace
Pattern(instruction) ==
    <<Ws, Lit(instruction.mnemonic), Ws>>
    \o ArgumentsRegex(instruction.arguments) \o <<Ws>>

\* the positions a match of the parts can end at, when started at one of P
RECURSIVE MatchEnds(_, _, _)
MatchEnds(parts, line, P) ==
    IF parts = <<>> THEN P
    ELSE LET h == Head(parts)
             step(p) ==
                 CASE h.kind = "ws" ->
                        {q \in p..Len(line) :
                            \A i \in (p + 1)..q : line[i] \in Whitespace}
                   [] h.kind = "lit" ->
                        IF p + Len(h.s) <= Len(line)
                           /\ SubSeq(line, p + 1, p + Len(h.s)) = h.s
                        THEN {p + Len(h.s)} ELSE {}
                   [] h.kind = "grp" ->
                        {p + Len(w) : w \in
                            {v \in h.lang : p + Len(v) <= Len(line)
                                /\ SubSeq(line, p + 1, p + Len(v)) = v}}
         IN  MatchEnds(Tail(parts), line, UNION {step(p) : p \in P})

\* re.fullmatch(pattern, line) succeeds
FullMatch(parts, line) == Len(line) \in MatchEnds(parts, line, {0})

\* the tuples of texts the capture groups of the parts can take
RECURSIVE GroupChoices(_)
GroupChoices(arguments) ==
    IF arguments = <<>> THEN {<<>>}
    ELSE {<<g>> \o rest : g \in arguments[1],
                          rest \in GroupChoices(Tail(arguments))}

RECURSIVE LitArguments(_)
LitArguments(groups) ==
    IF groups = <<>> THEN <<>>
    ELSE <<{groups[1]}>> \o LitArguments(Tail(groups))

\* i.groups() of a successful fullmatch
Groups(instruction, line) ==
    CHOOSE g \in GroupChoices(instruction.arguments) :
        FullMatch(Pattern([instruction EXCEPT
                                !.arguments = LitArguments(g)]), line)

(***************************************************************************)
(* The InstructionSet and the Assembler the model is run with.             *)
(***************************************************************************)
WordChar == {<<c>> : c \in WordChars}

\* InstructionSet.instructions, in table order
instructions ==
    << [mnemonic |-> <<"n">>, arguments |-> <<>>,                formatter |-> "N"],
       [mnemonic |-> <<"m">>, arguments |-> << {<<"a">>} >>,     formatter |-> "A"],
       [mnemonic |-> <<"m">>, arguments |-> << WordChar >>,      formatter |-> "W"],
       [mnemonic |-> <<"m">>, arguments |-> << WordChar, WordChar >>,
                                                                 formatter |-> "D"],
       [mnemonic |-> <<"z">>, arguments |-> <<>>,                formatter |-> ""] >>

\* Instruction.format(*arguments): the formatter applied to the groups.
\* The formatters of the table return their letter followed by the groups;
\* the one of the last instruction returns the empty string.
Format(instruction, arguments) ==
    IF instruction.formatter = "" THEN <<>>
    ELSE <<instruction.formatter>> \o Flatten(arguments)

\* the section start formatter returns the empty string for the name z
section_start_formatter(name) ==
    IF name = <<"z">> THEN <<>> ELSE <<"S">> \o name
section_end_formatter(name) == <<"E">> \o name

\* Assembler.__init__: the prologue and the epilogue of the output
Assembler(start, end) ==
    /\ start_formatter = start
    /\ end_formatter = end

(***************************************************************************)
(* The input texts: up to MaxLines source lines, joined by line boundaries.*)
(***************************************************************************)
SourceLines ==
    { <<>>,                                \* an empty line
      <<" ">>,                             \* a whitespace-only line
      <<";", "c">>,                        \* a comment-only line
      <<"a", ":">>,                        \* a bare label
      <<"b", ":", " ", "n">>,              \* a label and a statement
      <<"n">>,                             \* matches the first instruction
      <<"n", ";", "c">>,                   \* a statement and a comment
      <<"m", " ", "a">>,                   \* matches the second and third
      <<"m", "b">>,                        \* matches the third only
      <<"n", " ", "z">>,                   \* matches no instruction
      <<"a", ":", "b", " ", ":", "z">>,    \* two chained labels
      <<"a", ":", "b", ":">> }             \* two chained labels, no more

RECURSIVE Texts(_)
Texts(n) ==
    IF n = 1 THEN SourceLines
    ELSE {t \o <<sep>> \o l : t \in Texts(n - 1), sep \in LineBoundaries,
                              l \in SourceLines}

Programs == UNION {Texts(n) : n \in 1..MaxLines}

(***************************************************************************)
(* The outcome of a call and the log of the formatter calls it made.       *)
(***************************************************************************)
NoRet == [kind |-> "none", cause |-> "", line |-> 0, value |-> <<>>]
Return(value) == [kind |-> "ok", cause |-> "", line |-> 0, value |-> value]
\* raise AssemblerError(...), by the cause its message states
Raise(cause, line) ==
    [kind |-> "error", cause |-> cause, line |-> line, value |-> <<>>]
\* bytes(str) without an encoding raises TypeError
RaiseTypeError ==
    [kind |-> "error", cause |-> "TypeError", line |-> 0, value |-> <<>>]

SectionCall(f, name) == [f |-> f, index |-> 0, arg |-> <<name>>]
FormatCall(index, groups) == [f |-> "format", index |-> index, arg |-> groups]

NoPrev == [called |-> FALSE, text |-> <<>>, binary_output |-> FALSE,
           ret |-> NoRet, calls |-> <<>>]

\* the locals of assemble before line 53 assigns them
Fresh ==
    /\ lines = <<>>
    /\ line_number = 0
    /\ result = <<>>
    /\ sections_started = 0
    /\ new_text = <<>>
    /\ to_jump = <<>>
    /\ last_section_name = <<>>
    /\ ret = NoRet
    /\ calls = <<>>

Init ==
    /\ Assembler(<<"P">>, <<"Q">>)
    /\ text \in Programs
    /\ binary_output \in BOOLEAN
    /\ pc = "call"
    /\ prev = NoPrev
    /\ Fresh

\* the line the running loop is at, once line_number < Len(lines)
Line == lines[line_number + 1]

\* as CitedLine, with the index of enumerate cited as it is
CitedLineFromZero(n) == n

\* the line number an error message cites
CitedLine(n) == n + 1

\* as FilterNone, with every entry kept
KeepAll(entries) == entries

\* filter(None, entries)
FilterNone(entries) == SelectSeq(entries, LAMBDA e : e # <<>>)

\* as FirstMatchFrom, with the loop not left at a match: the last one wins
RECURSIVE LastMatchFrom(_, _)
LastMatchFrom(i, line) ==
    IF i > Len(instructions) THEN 0
    ELSE LET later == LastMatchFrom(i + 1, line)
         IN  IF later # 0 THEN later
             ELSE IF FullMatch(Pattern(instructions[i]), line) THEN i ELSE 0

\* the for loop over the instruction set, left at the first full match;
\* 0 when the loop ends without one
RECURSIVE FirstMatchFrom(_, _)
FirstMatchFrom(i, line) ==
    IF i > Len(instructions) THEN 0
    ELSE IF FullMatch(Pattern(instructions[i]), line) THEN i
    ELSE FirstMatchFrom(i + 1, line)

FirstMatch(line) == FirstMatchFrom(1, line)

(***************************************************************************)
(* Assembler.assemble                                                      *)
(***************************************************************************)
\* line 52: no code to assemble
RejectEmpty ==
    /\ pc = "call"
    /\ IsBlank(text)
    /\ ret' = Raise("EmptyInput", 0)
    /\ pc' = "done"
    /\ UNCHANGED <<start_formatter, end_formatter, text, binary_output,
                   lines, line_number, result,
                   sections_started, new_text, to_jump, last_section_name,
                   calls, prev>>

\* as EnterPass1, with result kept from one call to the next
EnterPass1Accumulating ==
    /\ pc = "call"
    /\ ~IsBlank(text)
    /\ sections_started' = 0
    /\ new_text' = <<>>
    /\ to_jump' = <<>>
    /\ lines' = StrippedLines(text)
    /\ line_number' = 0
    /\ pc' = "pass1"
    /\ UNCHANGED <<start_formatter, end_formatter, text, binary_output,
                   result, last_section_name, ret, calls, prev>>

\* lines 53-58: the locals, and the lines of the first loop
EnterPass1 ==
    /\ pc = "call"
    /\ ~IsBlank(text)
    /\ result' = <<>>
    /\ sections_started' = 0
    /\ new_text' = <<>>
    /\ to_jump' = <<>>
    /\ lines' = StrippedLines(text)
    /\ line_number' = 0
    /\ pc' = "pass1"
    /\ UNCHANGED <<start_formatter, end_formatter, text, binary_output,
                   last_section_name, ret, calls, prev>>

\* as SecondLabel, with the section pattern of the second pass
SecondLabelAlone(statement) == SectionMatch(statement).ok

\* as LabelPrefix, with the line not cut
WholeLine(line, statement) == line

\* line 61: the statement after a label matches the label pattern itself
SecondLabel(statement) == LabelMatch(statement).ok

\* line 62: line[:len(line) - len(statement)]
LabelPrefix(line, statement) == SubSeq(line, 1, Len(line) - Len(statement))

\* lines 59-63: a line with a label is split in two
Pass1Label ==
    /\ pc = "pass1"
    /\ line_number < Len(lines)
    /\ LabelMatch(Line).ok
    /\ LET statement == LabelMatch(Line).statement
       IN  /\ ~SecondLabel(statement)
           /\ new_text' = new_text
                  \o <<LabelPrefix(Line, statement), statement>>
    /\ to_jump' = to_jump \o <<line_number, line_number>>
    /\ line_number' = line_number + 1
    /\ UNCHANGED <<start_formatter, end_formatter, text, binary_output,
                   pc, lines, result, sections_started,
                   last_section_name, ret, calls, prev>>

\* line 61: the statement after a label starts with a label itself
Pass1MultipleLabels ==
    /\ pc = "pass1"
    /\ line_number < Len(lines)
    /\ LabelMatch(Line).ok
    /\ SecondLabel(LabelMatch(Line).statement)
    /\ ret' = Raise("MultipleLabelsOneLine", 0)
    /\ pc' = "done"
    /\ UNCHANGED <<start_formatter, end_formatter, text, binary_output,
                   lines, line_number, result,
                   sections_started, new_text, to_jump, last_section_name,
                   calls, prev>>

\* as Pass1Plain, with the statement lines checked as soon as they are met,
\* the two loops made one
Pass1PlainChecked ==
    /\ pc = "pass1"
    /\ line_number < Len(lines)
    /\ ~LabelMatch(Line).ok
    /\ IF Line = <<>> \/ IsBlank(Line)
       THEN /\ new_text' = Append(new_text, Line)
            /\ to_jump' = Append(to_jump, line_number)
            /\ line_number' = line_number + 1
            /\ UNCHANGED <<pc, ret>>
       ELSE /\ ret' = Raise(IF FirstMatch(Line) # 0
                               THEN "StatementOutsideSection"
                               ELSE "InvalidSyntax", Len(new_text) + 1)
            /\ pc' = "done"
            /\ UNCHANGED <<new_text, to_jump, line_number>>
    /\ UNCHANGED <<start_formatter, end_formatter, text, binary_output,
                   lines, result, sections_started, last_section_name,
                   calls, prev>>

\* line 65: a line without a label is kept
Pass1Plain ==
    /\ pc = "pass1"
    /\ line_number < Len(lines)
    /\ ~LabelMatch(Line).ok
    /\ new_text' = Append(new_text, Line)
    /\ to_jump' = Append(to_jump, line_number)
    /\ line_number' = line_number + 1
    /\ UNCHANGED <<start_formatter, end_formatter, text, binary_output,
                   pc, lines, result, sections_started,
                   last_section_name, ret, calls, prev>>

\* lines 67-70: the rewritten lines are joined, stripped and split again
EnterPass2 ==
    /\ pc = "pass1"
    /\ line_number = Len(lines)
    /\ new_text' = JoinLines(new_text)
    /\ last_section_name' = <<>>
    /\ lines' = StrippedLines(JoinLines(new_text))
    /\ line_number' = 0
    /\ pc' = "pass2"
    /\ UNCHANGED <<start_formatter, end_formatter, text, binary_output,
                   result, sections_started, to_jump,
                   ret, calls, prev>>

\* the emissions of a section line: the end of the open section, if any,
\* and the start of the new one (lines 73-76)
SectionEmissions(started, name) ==
    (IF started # 0 THEN <<SectionCall("section_end", name)>> ELSE <<>>)
    \o <<SectionCall("section_start", name)>>

\* the text a logged formatter call returned
Returned(call) ==
    CASE call.f = "section_start" -> section_start_formatter(call.arg[1])
      [] call.f = "section_end" -> section_end_formatter(call.arg[1])
      [] call.f = "format" -> Format(instructions[call.index], call.arg)

RECURSIVE ReturnedAll(_)
ReturnedAll(cs) ==
    IF cs = <<>> THEN <<>> ELSE <<Returned(Head(cs))>> \o ReturnedAll(Tail(cs))

\* lines 72-79: a bare label is a section boundary
Pass2Section ==
    /\ pc = "pass2"
    /\ line_number < Len(lines)
    /\ SectionMatch(Line).ok
    /\ LET name == SectionMatch(Line).name
           emitted == SectionEmissions(sections_started, name)
       IN  /\ calls' = calls \o emitted
           /\ result' = result \o ReturnedAll(emitted)
           /\ last_section_name' = name
    /\ sections_started' = sections_started + 1
    /\ line_number' = line_number + 1
    /\ UNCHANGED <<start_formatter, end_formatter, text, binary_output,
                   pc, lines, new_text, to_jump, ret,
                   prev>>

\* lines 80-81 and 86: a blank line is passed over
Pass2Blank ==
    /\ pc = "pass2"
    /\ line_number < Len(lines)
    /\ ~SectionMatch(Line).ok
    /\ Line = <<>> \/ IsBlank(Line)
    /\ line_number' = line_number + 1
    /\ UNCHANGED <<start_formatter, end_formatter, text, binary_output,
                   pc, lines, result, sections_started,
                   new_text, to_jump, last_section_name, ret, calls, prev>>

\* a statement line: neither a section line nor blank (lines 82-83)
IsStatement(line) == ~SectionMatch(line).ok /\ ~(line = <<>> \/ IsBlank(line))

\* as Pass2Format, with no test of sections_started
Pass2FormatAnywhere ==
    /\ pc = "pass2"
    /\ line_number < Len(lines)
    /\ IsStatement(Line)
    /\ FirstMatch(Line) # 0
    /\ LET i == FirstMatch(Line)
           groups == Groups(instructions[i], Line)
       IN  /\ calls' = Append(calls, FormatCall(i, groups))
           /\ result' = Append(result, Format(instructions[i], groups))
    /\ line_number' = line_number + 1
    /\ UNCHANGED <<start_formatter, end_formatter, text, binary_output,
                   pc, lines, sections_started, new_text, to_jump,
                   last_section_name, ret, prev>>

\* lines 87-94: the first instruction that matches formats the line
Pass2Format ==
    /\ pc = "pass2"
    /\ line_number < Len(lines)
    /\ IsStatement(Line)
    /\ FirstMatch(Line) # 0
    /\ sections_started # 0
    /\ LET i == FirstMatch(Line)
           groups == Groups(instructions[i], Line)
       IN  /\ calls' = Append(calls, FormatCall(i, groups))
           /\ result' = Append(result, Format(instructions[i], groups))
    /\ line_number' = line_number + 1
    /\ UNCHANGED <<start_formatter, end_formatter, text, binary_output,
                   pc, lines, sections_started, new_text,
                   to_jump, last_section_name, ret, prev>>

\* as Pass2OutOfSection, with the section test made before the matching
Pass2OutOfSectionUnmatched ==
    /\ pc = "pass2"
    /\ line_number < Len(lines)
    /\ IsStatement(Line)
    /\ sections_started = 0
    /\ ret' = Raise("StatementOutsideSection", line_number + 1)
    /\ pc' = "done"
    /\ UNCHANGED <<start_formatter, end_formatter, text, binary_output,
                   lines, line_number, result,
                   sections_started, new_text, to_jump, last_section_name,
                   calls, prev>>

\* lines 90-91: an instruction matches and no section was started
Pass2OutOfSection ==
    /\ pc = "pass2"
    /\ line_number < Len(lines)
    /\ IsStatement(Line)
    /\ FirstMatch(Line) # 0
    /\ sections_started = 0
    /\ ret' = Raise("StatementOutsideSection", CitedLine(line_number))
    /\ pc' = "done"
    /\ UNCHANGED <<start_formatter, end_formatter, text, binary_output,
                   lines, line_number, result,
                   sections_started, new_text, to_jump, last_section_name,
                   calls, prev>>

\* as Pass2InvalidSyntax, with the unmatched line passed over
Pass2UnmatchedSkipped ==
    /\ pc = "pass2"
    /\ line_number < Len(lines)
    /\ IsStatement(Line)
    /\ FirstMatchFrom(1, Line) = 0
    /\ line_number' = line_number + 1
    /\ UNCHANGED <<start_formatter, end_formatter, text, binary_output,
                   pc, lines, result, sections_started,
                   new_text, to_jump, last_section_name, ret, calls, prev>>

\* lines 95-96: no instruction matches
Pass2InvalidSyntax ==
    /\ pc = "pass2"
    /\ line_number < Len(lines)
    /\ IsStatement(Line)
    /\ FirstMatch(Line) = 0
    /\ ret' = Raise("InvalidSyntax", CitedLine(line_number))
    /\ pc' = "done"
    /\ UNCHANGED <<start_formatter, end_formatter, text, binary_output,
                   lines, line_number, result,
                   sections_started, new_text, to_jump, last_section_name,
                   calls, prev>>

\* the call of line 98, made after the loop whatever sections_started is
FinalEmissions(started, name) == <<SectionCall("section_end", name)>>

\* as Finish, with the empty entries filtered out of result alone
FinishFilteringResult ==
    /\ pc = "pass2"
    /\ line_number = Len(lines)
    /\ LET emitted == FinalEmissions(sections_started, last_section_name)
           final == result \o ReturnedAll(emitted)
           joined == JoinLines(<<start_formatter>> \o FilterNone(final)
                               \o <<end_formatter>>)
       IN  /\ calls' = calls \o emitted
           /\ result' = final
           /\ ret' = IF binary_output THEN RaiseTypeError ELSE Return(joined)
    /\ pc' = "done"
    /\ UNCHANGED <<start_formatter, end_formatter, text, binary_output,
                   lines, line_number, sections_started, new_text, to_jump,
                   last_section_name, prev>>

\* lines 98-101: the last section is ended and the output is joined
Finish ==
    /\ pc = "pass2"
    /\ line_number = Len(lines)
    /\ LET emitted == FinalEmissions(sections_started, last_section_name)
           final == result \o ReturnedAll(emitted)
           joined == JoinLines(FilterNone(<<start_formatter>> \o final
                                          \o <<end_formatter>>))
       IN  /\ calls' = calls \o emitted
           /\ result' = final
           /\ ret' = IF binary_output THEN RaiseTypeError ELSE Return(joined)
    /\ pc' = "done"
    /\ UNCHANGED <<start_formatter, end_formatter, text, binary_output,
                   lines, line_number, sections_started,
                   new_text, to_jump, last_section_name, prev>>

Assemble ==
    \/ RejectEmpty
    \/ EnterPass1
    \/ Pass1Label
    \/ Pass1MultipleLabels
    \/ Pass1Plain
    \/ EnterPass2
    \/ Pass2Section
    \/ Pass2Blank
    \/ Pass2Format
    \/ Pass2OutOfSection
    \/ Pass2InvalidSyntax
    \/ Finish

Next == Assemble

Spec == Init /\ [][Next]_vars

(***************************************************************************)
(* A second call of assemble on the same Assembler, with a text related to *)
(* the text of the first call: a line with a label written as two lines,   *)
(* or a comment appended to a line.                                        *)
(***************************************************************************)
MaxRerunLines == 2

RerunLines ==
    { <<>>, <<";", "c">>, <<"a", ":">>, <<"b", ":", " ", "n">>, <<"n">>,
      <<"n", " ", "z">>, <<"a", ":", "b", " ", ":", "z">> }

RECURSIVE RerunTexts(_)
RerunTexts(n) ==
    IF n = 1 THEN RerunLines
    ELSE {t \o <<sep>> \o l : t \in RerunTexts(n - 1),
                              sep \in LineBoundaries, l \in RerunLines}

Comments == { <<";", "a", ":">> }

\* the positions of t at which a line of t.splitlines() ends
LineEnds(t) ==
    {p \in 0..Len(t) : \/ p < Len(t) /\ t[p + 1] \in LineBoundaries
                       \/ p = Len(t) /\ p > 0 /\ t[p] \notin LineBoundaries}

InsertAt(t, p, c) == SubSeq(t, 1, p) \o c \o SubSeq(t, p + 1, Len(t))

\* t with a trailing comment appended to one of its lines
WithComment(t) == {InsertAt(t, p, c) : p \in LineEnds(t), c \in Comments}

LStrip(s) == SubSeq(s, RunEnd(s, 0, Whitespace) + 1, Len(s))

\* a line "L: S": a label followed by text that does not start with a label
IsLabelled(line) ==
    LabelMatch(line).ok /\ ~LabelMatch(LabelMatch(line).statement).ok

\* the lines ls with line i, "L: S", written as the two lines "L:" and "S"
SplitAt(ls, i) ==
    LET statement == LabelMatch(ls[i]).statement
    IN  SubSeq(ls, 1, i - 1)
        \o <<SubSeq(ls[i], 1, Len(ls[i]) - Len(statement)), LStrip(statement)>>
        \o SubSeq(ls, i + 1, Len(ls))

\* t, free of comments, with one of its labelled lines written as two lines
WithLabelSplit(t) ==
    LET ls == StrippedLines(t)
    IN  {JoinLines(SplitAt(ls, i)) : i \in {k \in 1..Len(ls) : IsLabelled(ls[k])}}

\* the texts of a second call: the same text, or a cosmetic variant of it
Related(t) == {t} \cup WithLabelSplit(t) \cup WithComment(t)

InitRerun ==
    /\ Assembler(<<"P">>, <<"Q">>)
    /\ text \in UNION {RerunTexts(n) : n \in 1..MaxRerunLines}
    /\ binary_output \in BOOLEAN
    /\ pc = "call"
    /\ prev = NoPrev
    /\ Fresh

\* the first call has ended; assemble is called again on the same
\* Assembler.  Whatever the first call left behind stays where it is: it
\* is for the code of assemble to overwrite it before it reads it.
Rerun ==
    /\ pc = "done"
    /\ ~prev.called
    /\ prev' = [called |-> TRUE, text |-> text,
                binary_output |-> binary_output, ret |-> ret, calls |-> calls]
    /\ text' \in Related(text)
    /\ pc' = "call"
    /\ ret' = NoRet
    /\ calls' = <<>>
    /\ UNCHANGED <<start_formatter, end_formatter, binary_output, lines,
                   line_number, result, sections_started, new_text, to_jump,
                   last_section_name>>

NextRerun == Assemble \/ Rerun

SpecRerun == InitRerun /\ [][NextRerun]_vars

(***************************************************************************)
(* Properties of a single call.                                            *)
(***************************************************************************)
\* some instruction of the table fully matches the line
AnyMatch(line) ==
    \E i \in 1..Len(instructions) : FullMatch(Pattern(instructions[i]), line)

\* the second loop has been entered (and, at "done", left)
InPass2 ==
    \/ pc = "pass2"
    \/ pc = "done" /\ ret.cause \notin {"EmptyInput", "MultipleLabelsOneLine"}

\* the second loop stands at a statement line
AtStatement == pc = "pass2" /\ line_number < Len(lines) /\ IsStatement(Line)

\* C1: when a bare label line is processed while a section is open, the
\* end formatter is called with the name of the section being closed (the
\* name the latest start formatter call was given), and only then the start
\* formatter with the new name.
C1_EndNamesClosedSection ==
    \A k \in 2..Len(calls) :
        (calls[k].f = "section_start"
            /\ \E j \in 1..(k - 1) : calls[j].f = "section_start")
        => LET open == Max({j \in 1..(k - 1) : calls[j].f = "section_start"})
           IN  /\ calls[k - 1].f = "section_end"
               /\ calls[k - 1].arg = calls[open].arg

\* C2: when all lines are processed, a run that opened a section ends with
\* exactly one final section_end_formatter(last_section_name), and a run
\* that opened none calls no section_end_formatter and returns the prologue
\* and the epilogue alone.
C2_FinalEndOnlyIfSectionOpened ==
    (pc = "done" /\ ret.kind = "ok") =>
        IF sections_started > 0
        THEN /\ calls[Len(calls)] = SectionCall("section_end", last_section_name)
             /\ calls[Len(calls) - 1].f # "section_end"
        ELSE /\ \A k \in 1..Len(calls) : calls[k].f # "section_end"
             /\ ret.value = JoinLines(<<start_formatter, end_formatter>>)

\* C3 as stated: every statement line reached before any section has been
\* opened makes the call fail with the StatementOutsideSection cause,
\* whether or not an instruction matches it.
C3_OutsideSectionWhateverTheLine ==
    [][(AtStatement /\ sections_started = 0)
        => (pc' = "done" /\ ret'.kind = "error"
            /\ ret'.cause = "StatementOutsideSection")]_vars

\* C3 as amended: a statement line reached before any section has been
\* opened makes the call fail, with the StatementOutsideSection cause when
\* some instruction of the table fully matches the line and with the
\* InvalidSyntax cause when none does.
C3_OutsideSectionByMatch ==
    [][(AtStatement /\ sections_started = 0)
        => (pc' = "done" /\ ret'.kind = "error"
            /\ ret'.cause = IF AnyMatch(Line) THEN "StatementOutsideSection"
                                              ELSE "InvalidSyntax")]_vars

\* a call failed at an unmatched statement line before any section
C3_Witness ==
    /\ pc = "done"
    /\ ret.cause = "InvalidSyntax"
    /\ sections_started = 0
    /\ IsStatement(Line) /\ ~AnyMatch(Line)

\* C4: a statement line processed while a section is open that no
\* instruction fully matches makes the call fail with the InvalidSyntax
\* cause, and the call returns no output.
C4_InvalidSyntaxInSection ==
    [][(AtStatement /\ sections_started # 0 /\ ~AnyMatch(Line))
        => (pc' = "done" /\ ret'.kind = "error"
            /\ ret'.cause = "InvalidSyntax" /\ ret'.value = <<>>)]_vars

\* a call failed at an unmatched statement line of an open section, after
\* emissions had been accumulated
C4_Witness ==
    /\ pc = "done"
    /\ ret.cause = "InvalidSyntax"
    /\ sections_started # 0
    /\ result # <<>>
    /\ ret.value = <<>>

\* the lines of the first pass' output, as the specification describes it:
\* every line with a label replaced by the label and the rest of the line
RECURSIVE Rewritten(_)
Rewritten(ls) ==
    IF ls = <<>> THEN <<>>
    ELSE LET m == LabelMatch(Head(ls))
         IN  (IF m.ok
              THEN <<SubSeq(Head(ls), 1, Len(Head(ls)) - Len(m.statement)),
                     m.statement>>
              ELSE <<Head(ls)>>) \o Rewritten(Tail(ls))

\* line k of rw is a statement line the second pass rejects
Rejected(rw, k) ==
    /\ IsStatement(rw[k])
    /\ \/ ~AnyMatch(rw[k])
       \/ ~\E j \in 1..(k - 1) : SectionMatch(rw[j]).ok

\* C5: the line number a StatementOutsideSection or InvalidSyntax error
\* cites is the 1-based index, in the rewritten line sequence, of the first
\* line the second pass rejects.
C5_CitedLineIsRewrittenIndex ==
    (pc = "done" /\ ret.cause \in {"StatementOutsideSection", "InvalidSyntax"})
    => LET rw == Rewritten(StrippedLines(text))
       IN  /\ ret.line \in 1..Len(rw)
           /\ Rejected(rw, ret.line)
           /\ \A k \in 1..(ret.line - 1) : ~Rejected(rw, k)

\* an error cites a line number beyond the number of the source line it is
\* on: lines with labels before it were split
C5_Witness ==
    /\ pc = "done"
    /\ ret.cause \in {"StatementOutsideSection", "InvalidSyntax"}
    /\ ret.line > to_jump[ret.line] + 1

\* the instructions that fully match each statement line of ls, earliest
RECURSIVE EarliestMatches(_)
EarliestMatches(ls) ==
    IF ls = <<>> THEN <<>>
    ELSE (IF IsStatement(Head(ls))
          THEN <<Min({i \in 1..Len(instructions) :
                        FullMatch(Pattern(instructions[i]), Head(ls))})>>
          ELSE <<>>) \o EarliestMatches(Tail(ls))

FormatCalls == SelectSeq(calls, LAMBDA c : c.f = "format")

\* C6: the statement lines processed so far were each formatted once, by
\* the earliest instruction of the table that fully matches the line, and no
\* other instruction's formatter was called.
C6_FirstMatchFormats ==
    InPass2 =>
        /\ Len(FormatCalls) = Len(EarliestMatches(SubSeq(lines, 1, line_number)))
        /\ \A k \in 1..Len(FormatCalls) :
              FormatCalls[k].index
                  = EarliestMatches(SubSeq(lines, 1, line_number))[k]

\* a line that the second and the third instruction both match was formatted
C6_Witness ==
    /\ pc = "done"
    /\ ret.kind = "ok"
    /\ \E k \in 1..Len(lines) :
          /\ Cardinality({i \in 1..Len(instructions) :
                            FullMatch(Pattern(instructions[i]), lines[k])}) > 1
    /\ \E k \in 1..Len(calls) : calls[k].f = "format" /\ calls[k].index = 2

(***************************************************************************)
(* Properties of two calls on related texts.                               *)
(***************************************************************************)
\* two calls ended alike: the same output, or the same cause of failure
SameOutcome(r1, r2) ==
    r1.kind = r2.kind /\ r1.cause = r2.cause /\ r1.value = r2.value

\* C7: a call on a text in which one line "L: S" of the comment-free lines
\* is written as the two lines "L:" and "S" (S not starting with a label)
\* ends as the call on the text with the one line does: the same output
\* text on success, the same cause on failure.
C7_LabelSplitTransparent ==
    (pc = "done" /\ prev.called /\ text \in WithLabelSplit(prev.text))
        => SameOutcome(ret, prev.ret)

\* both calls succeeded, on "L: S" and on "L:", "S", and formatted S
C7_Witness ==
    /\ pc = "done"
    /\ prev.called
    /\ text \in WithLabelSplit(prev.text)
    /\ Len(StrippedLines(text)) > Len(StrippedLines(prev.text))
    /\ ret.kind = "ok"
    /\ \E k \in 1..Len(calls) : calls[k].f = "format"

\* text between the start of s and a colon that is a label: whitespace, a
\* name of word characters, whitespace
IsName(s) ==
    \E i, j \in 1..Len(s) :
        /\ i <= j
        /\ \A k \in 1..Len(s) :
              IF k \in i..j THEN s[k] \in WordChars ELSE s[k] \in Whitespace

\* the line starts with two labels, one after the other
Chained(line) ==
    \E p, q \in 1..Len(line) :
        /\ p < q
        /\ line[p] = ":" /\ line[q] = ":"
        /\ IsName(SubSeq(line, 1, p - 1))
        /\ IsName(SubSeq(line, p + 1, q - 1))

\* C8: a call on a text one of whose lines, comments removed, starts with
\* two chained labels fails with the MultipleLabelsOneLine cause, whatever
\* follows the second colon and whatever the other lines are.
C8_ChainedLabelsRejected ==
    (pc = "done"
        /\ \E k \in 1..Len(StrippedLines(text)) : Chained(StrippedLines(text)[k]))
    => (ret.kind = "error" /\ ret.cause = "MultipleLabelsOneLine")

\* a call failed at a line with two chained labels, after the first loop
\* had accepted a line before it
C8_Witness ==
    /\ pc = "done"
    /\ ret.cause = "MultipleLabelsOneLine"
    /\ line_number > 0
    /\ Chained(Line)

\* C9: a call on a text that is empty or holds whitespace only fails with
\* the EmptyInput cause before either loop is entered and before any
\* formatter is called.
C9_EmptyInputRejected ==
    (\A i \in 1..Len(text) : text[i] \in {" ", LF, CR})
    => /\ pc \in {"call", "done"}
       /\ calls = <<>>
       /\ lines = <<>> /\ new_text = <<>> /\ result = <<>>
       /\ pc = "done" => ret = Raise("EmptyInput", 0)

\* a call on a non-empty text of whitespace only failed with EmptyInput
C9_Witness ==
    /\ pc = "done"
    /\ text # <<>>
    /\ \A i \in 1..Len(text) : text[i] \in {" ", LF, CR}
    /\ ret.cause = "EmptyInput"

\* C10: a call on a valid program to one of whose lines a trailing comment
\* was appended ends as the call on the program itself.
C10_CommentChangesNothing ==
    (pc = "done" /\ prev.called /\ prev.ret.kind = "ok"
        /\ text \in WithComment(prev.text))
    => ret = prev.ret


(***************************************************************************)
(* The output and its assembly.                                            *)
(***************************************************************************)
\* the causes AssemblerError is raised with
AssemblerErrors ==
    {"EmptyInput", "MultipleLabelsOneLine", "StatementOutsideSection",
     "InvalidSyntax"}

\* the text a successful call returns with binary_output off: what line 100
\* joins from the prologue, the accumulated result and the epilogue
OutputText ==
    JoinLines(FilterNone(<<start_formatter>> \o result \o <<end_formatter>>))

\* C11: with binary_output requested, a call on a program that raises no
\* AssemblerError returns successfully, and what it returns is the encoding
\* of exactly the text it returns with binary_output off (every character
\* of the model is one byte).
C11_BinaryOutputIsEncodedText ==
    (pc = "done" /\ binary_output /\ ret.cause \notin AssemblerErrors)
        => (ret.kind = "ok" /\ ret.value = OutputText)

(***************************************************************************)
(* Calls on Assemblers with and without a prologue and an epilogue, over   *)
(* texts whose formatters return empty and non-empty strings.              *)
(***************************************************************************)
MaxOutputLines == 2

OutputLines ==
    { <<>>,                                \* an empty line
      <<"a", ":">>,                        \* a section whose start is emitted
      <<"z", ":">>,                        \* a section whose start is empty
      <<"b", ":", " ", "n">>,              \* a label and a statement
      <<"z">>,                             \* formatted as the empty string
      <<"n", " ", "z">>,                   \* matches no instruction
      <<"a", ":", "b", ":">> }             \* two chained labels

RECURSIVE OutputTexts(_)
OutputTexts(n) ==
    IF n = 1 THEN OutputLines
    ELSE {t \o <<sep>> \o l : t \in OutputTexts(n - 1),
                              sep \in LineBoundaries, l \in OutputLines}

InitOutput ==
    /\ \E start \in {<<"P">>, <<>>}, end \in {<<"Q">>, <<>>} :
           Assembler(start, end)
    /\ text \in UNION {OutputTexts(n) : n \in 1..MaxOutputLines}
    /\ binary_output = FALSE
    /\ pc = "call"
    /\ prev = NoPrev
    /\ Fresh

SpecOutput == InitOutput /\ [][Next]_vars

\* str.split("\n"): the entries of a joined output
RECURSIVE SplitAtLF(_)
SplitAtLF(s) ==
    IF \A k \in 1..Len(s) : s[k] # LF THEN <<s>>
    ELSE LET i == Min({k \in 1..Len(s) : s[k] = LF})
         IN  <<SubSeq(s, 1, i - 1)>> \o SplitAtLF(SubSeq(s, i + 1, Len(s)))

\* the entries of the returned text; the empty text has none
Entries == IF ret.value = <<>> THEN <<>> ELSE SplitAtLF(ret.value)

\* the texts the logged formatter calls returned, the empty ones left out
KeptEmissions == SelectSeq(ReturnedAll(calls), LAMBDA e : e # <<>>)

\* C12: in a successful call, an instruction or section emission whose
\* formatter returned the empty string contributes no entry (and so no
\* blank line) to the joined output, and every other emission is kept, in
\* order: between what the prologue and the epilogue contribute, the
\* entries of the output are exactly the non-empty emissions.
C12_EmptyEmissionsDropped ==
    (pc = "done" /\ ret.kind = "ok") =>
        \E pre \in {<<>>, <<start_formatter>>},
           post \in {<<>>, <<end_formatter>>} :
            Entries = pre \o KeptEmissions \o post

\* a successful call in which a section start and an instruction were both
\* formatted as the empty string, next to a non-empty emission
C12_Witness ==
    /\ pc = "done" /\ ret.kind = "ok"
    /\ \E k \in 1..Len(calls) :
           calls[k].f = "format" /\ Returned(calls[k]) = <<>>
    /\ \E k \in 1..Len(calls) :
           calls[k].f = "section_start" /\ Returned(calls[k]) = <<>>
    /\ KeptEmissions # <<>>

(***************************************************************************)
(* Two calls on one Assembler.                                             *)
(***************************************************************************)
\* C13: a second call of assemble on the same Assembler, with the text and
\* the binary_output of the first, ends as the first did: the same returned
\* text or the same error, after the same formatter calls with the same
\* arguments.  Nothing the first call left behind reaches the second.
C13_SecondCallSameResult ==
    (pc = "done" /\ prev.called
        /\ text = prev.text /\ binary_output = prev.binary_output)
        => (ret = prev.ret /\ calls = prev.calls)

\* both calls of the same text have returned, after the first had opened
\* sections and accumulated emissions
C13_Witness ==
    /\ pc = "done" /\ prev.called
    /\ text = prev.text
    /\ ret.kind = "ok" /\ prev.ret.kind = "ok"
    /\ sections_started > 0
    /\ \E k \in 1..Len(prev.calls) : prev.calls[k].f = "format"

(***************************************************************************)
(* Calls over statement lines that match an instruction wholly, in part    *)
(* or not at all.                                                          *)
(***************************************************************************)
MaxMatchLines == 2

MatchLines ==
    { <<>>,                                     \* an empty line
      <<"a", ":">>,                             \* a bare label
      <<"a", ":", "m", "a", ",", "b">>,         \* a label, two arguments
      <<"1", ":", "n">>,                        \* a digit, a colon, a statement
      <<"m", " ", "a", " ", ",", " ", "b">>,    \* whitespace around the comma
      <<" ", "n", " ">>,                        \* whitespace around the line
      <<"m", " ", "a", ",">>,                   \* an argument is missing
      <<"m", " ", "a", ",", "b", ",", "c">>,    \* an argument too many
      <<"m">>,                                  \* the mnemonic alone
      <<"m", "a", "b">>,                        \* no comma between arguments
      <<"n", " ", "n">>,                        \* text after a whole match
      <<"a", " ", "n">>,                        \* text before a whole match
      <<"a", ":", "b", ":">> }                  \* two chained labels

RECURSIVE MatchTexts(_)
MatchTexts(n) ==
    IF n = 1 THEN MatchLines
    ELSE {t \o <<sep>> \o l : t \in MatchTexts(n - 1),
                              sep \in LineBoundaries, l \in MatchLines}

InitMatch ==
    /\ Assembler(<<"P">>, <<"Q">>)
    /\ text \in UNION {MatchTexts(n) : n \in 1..MaxMatchLines}
    /\ binary_output = FALSE
    /\ pc = "call"
    /\ prev = NoPrev
    /\ Fresh

SpecMatch == InitMatch /\ [][Next]_vars

\* the mnemonic, then the argument tokens with a comma between two of them
RECURSIVE CommaSeparated(_)
CommaSeparated(tokens) ==
    IF Len(tokens) <= 1 THEN tokens
    ELSE <<Head(tokens), <<",">>>> \o CommaSeparated(Tail(tokens))

\* the line is the given tokens in order, with nothing but optional
\* whitespace before, between and after them
RECURSIVE Interleaved(_, _)
Interleaved(tokens, line) ==
    IF tokens = <<>> THEN \A k \in 1..Len(line) : line[k] \in Whitespace
    ELSE \E k \in 0..Len(line) :
            /\ \A j \in 1..k : line[j] \in Whitespace
            /\ k + Len(Head(tokens)) <= Len(line)
            /\ SubSeq(line, k + 1, k + Len(Head(tokens))) = Head(tokens)
            /\ Interleaved(Tail(tokens),
                           SubSeq(line, k + Len(Head(tokens)) + 1, Len(line)))

\* the whole line is the instruction: its mnemonic, then exactly as many
\* comma-separated tokens as it has arguments, each of its grammar
WholeLineIs(instruction, tokens, line) ==
    /\ Len(tokens) = Len(instruction.arguments)
    /\ \A k \in 1..Len(tokens) : tokens[k] \in instruction.arguments[k]
    /\ Interleaved(<<instruction.mnemonic>> \o CommaSeparated(tokens), line)

\* some instruction of the table, with some tokens, is the whole line
SomeWholeLine(line) ==
    \E i \in 1..Len(instructions) :
        \E tokens \in GroupChoices(instructions[i].arguments) :
            WholeLineIs(instructions[i], tokens, line)

\* C14: an instruction formatter is called for a statement line only when
\* the whole line is that instruction (optional whitespace, the mnemonic,
\* exactly its number of comma-separated tokens, each matching its grammar,
\* and nothing else), with those tokens as arguments; a line that no
\* instruction is the whole of (extra text, too few or too many arguments)
\* is dispatched to none and fails with InvalidSyntax.
C14_WholeLineDispatch ==
    [][AtStatement =>
        /\ (Len(calls') > Len(calls)) =>
              LET call == calls'[Len(calls')]
              IN  /\ call.f = "format"
                  /\ WholeLineIs(instructions[call.index], call.arg, Line)
        /\ ~SomeWholeLine(Line) =>
              (calls' = calls /\ ret'.cause = "InvalidSyntax")]_vars

\* the two-argument instruction has just formatted a line with whitespace
\* around its comma
C14_Witness ==
    /\ pc = "pass2" /\ line_number > 0
    /\ lines[line_number] = <<"m", " ", "a", " ", ",", " ", "b">>
    /\ calls # <<>>
    /\ calls[Len(calls)] = FormatCall(4, << <<"a">>, <<"b">> >>)

\* C15 as stated: a successful call returns the prologue, then every
\* non-empty emission in source order, then the epilogue, with exactly one
\* newline between two adjacent entries; the prologue and the epilogue are
\* never dropped, each is one entry whatever it is.
C15_PrologueAndEpilogueAlwaysEntries ==
    (pc = "done" /\ ret.kind = "ok") =>
        ret.value = JoinLines(<<start_formatter>> \o KeptEmissions
                              \o <<end_formatter>>)

\* what the prologue or the epilogue contributes to the output
Framing(s) == IF s = <<>> THEN <<>> ELSE <<s>>

\* C15 as amended: a successful call returns the prologue if it is not
\* empty, then every non-empty emission in source order, then the epilogue
\* if it is not empty, with exactly one newline between two adjacent
\* entries and none before the first or after the last; an empty prologue
\* or epilogue is dropped like an empty emission.
C15_OutputLayout ==
    (pc = "done" /\ ret.kind = "ok") =>
        /\ Entries = Framing(start_formatter) \o KeptEmissions
                     \o Framing(end_formatter)
        /\ \A k \in 1..Len(Entries) : Entries[k] # <<>>

\* a successful call of an Assembler with an empty prologue, in which an
\* instruction was formatted as the empty string next to other emissions
C15_Witness ==
    /\ pc = "done" /\ ret.kind = "ok"
    /\ start_formatter = <<>> /\ end_formatter # <<>>
    /\ \E k \in 1..Len(calls) :
           calls[k].f = "format" /\ Returned(calls[k]) = <<>>
    /\ Len(KeptEmissions) >= 2

(***************************************************************************)
(* Label syntax.                                                           *)
(***************************************************************************)
\* an identifier: a letter or an underscore, then letters, digits and
\* underscores (the alphabet of the model has no underscore)
IsIdentifier(s) ==
    /\ s # <<>>
    /\ s[1] \in WordChars \ Digits
    /\ \A k \in 1..Len(s) : s[k] \in WordChars

\* the line starts with optional whitespace, an identifier, optional
\* whitespace and a colon
DeclaresLabel(line) ==
    \E a \in 1..Len(line), b \in 1..Len(line), c \in 1..Len(line) :
        /\ a <= b /\ b < c
        /\ \A k \in 1..(a - 1) : line[k] \in Whitespace
        /\ IsIdentifier(SubSeq(line, a, b))
        /\ \A k \in (b + 1)..(c - 1) : line[k] \in Whitespace
        /\ line[c] = ":"

\* C16: a line is treated as a label declaration only when it starts with
\* an identifier (first character a letter or an underscore) followed by a
\* colon: the first pass splits only such lines in two, and the second
\* pass opens sections only under identifier names.  A line whose name
\* starts with a digit is kept whole and processed as a statement line.
C16_LabelsAreIdentifiers ==
    /\ pc = "pass1" =>
          Len(new_text) = line_number
              + Cardinality({k \in 1..line_number : DeclaresLabel(lines[k])})
    /\ \A k \in 1..Len(calls) :
          calls[k].f = "section_start" => IsIdentifier(calls[k].arg[1])

(***************************************************************************)
(* The order of the two passes.                                            *)
(***************************************************************************)
\* some line of the text, comments removed, starts with two chained labels
HasChainedLine ==
    \E k \in 1..Len(StrippedLines(text)) : Chained(StrippedLines(text)[k])

\* C17: the first pass runs over the whole text before the second starts.
\* No formatter is called and no section is counted while the first pass
\* runs; and a call on a text with a line of two chained labels never
\* enters the second pass: it ends with the MultipleLabelsOneLine cause,
\* even when an earlier line is one the second pass would reject, and it
\* calls no section or instruction formatter.
C17_FirstPassBeforeSecond ==
    /\ pc = "pass1" => (calls = <<>> /\ result = <<>> /\ sections_started = 0)
    /\ HasChainedLine =>
          /\ pc # "pass2"
          /\ calls = <<>>
          /\ pc = "done" => ret = Raise("MultipleLabelsOneLine", 0)

\* a call failed at a line with two chained labels, after the first pass
\* had kept a statement line that the second pass would reject, no section
\* being open before it
C17_Witness ==
    /\ pc = "done"
    /\ ret.cause = "MultipleLabelsOneLine"
    /\ line_number > 0
    /\ ~LabelMatch(lines[1]).ok
    /\ Rejected(<<lines[1]>>, 1)

(***************************************************************************)
(* Section emissions and the section counter.                              *)
(***************************************************************************)
SectionCalls == SelectSeq(calls, LAMBDA c : c.f # "format")

\* the bare label lines among the first n lines of the second pass
SectionLines(n) == {k \in 1..n : SectionMatch(lines[k]).ok}

\* C18: in every successful call the section emissions are balanced: the
\* section start formatter and the section end formatter are called the
\* same number of times, once each per bare label line, and their calls
\* alternate strictly, start first and end last.
C18_SectionEmissionsBalanced ==
    (pc = "done" /\ ret.kind = "ok") =>
        /\ Len(SectionCalls) = 2 * Cardinality(SectionLines(Len(lines)))
        /\ \A k \in 1..Len(SectionCalls) :
              SectionCalls[k].f = IF k % 2 = 1 THEN "section_start"
                                  ELSE "section_end"

\* the section counter is the number of bare label lines processed so far
CounterCountsSections ==
    InPass2 => sections_started = Cardinality(SectionLines(line_number))

\* every instruction emission of a returned output lies after the first
\* section start emission and before the final section end emission
FormatsInsideSections ==
    (pc = "done" /\ ret.kind = "ok") =>
        \A k \in 1..Len(calls) :
            calls[k].f = "format" =>
                /\ \E j \in 1..(k - 1) : calls[j].f = "section_start"
                /\ k < Len(calls)
                /\ calls[Len(calls)].f = "section_end"

\* C19: in every step of a call, an instruction formatter is called only
\* while the section counter is at least 1, the counter never decreases,
\* and it equals the number of bare label lines processed so far; hence in
\* a returned output every instruction emission lies after the first
\* section start emission and before the final section end emission.
C19_FormatOnlyInsideSection ==
    [][/\ (Len(calls') > Len(calls) /\ calls'[Len(calls')].f = "format")
            => sections_started >= 1
       /\ sections_started' >= sections_started
       /\ CounterCountsSections'
       /\ FormatsInsideSections']_vars

\* a call returned after its second section had formatted an instruction
C19_Witness ==
    /\ pc = "done" /\ ret.kind = "ok"
    /\ sections_started >= 2
    /\ calls[Len(calls) - 1].f = "format"
=============================================================================
